---- MODULE Spec2Model ----
(***************************************************************************)
(* Model of uniqfunc: the command line entry point (src/uniqfunc/cli.py)   *)
(* and the function-definition parser (src/uniqfunc/parser.py).            *)
(*                                                                         *)
(* Spec        one invocation of cli.main on a repository                  *)
(* SpecParse   parser.parse_function_defs applied to a syntax tree         *)
(* SpecParams  parser._extract_params applied to an ast.arguments node     *)
(***************************************************************************)
EXTENDS Integers, Sequences, FiniteSets, TLC

VARIABLES argv, env, pc, idx, errors, reads, parses, result, stdout, exitCode,
          tree, functions, ppc,
          arguments, params, xpc

vars == <<argv, env, pc, idx, errors, reads, parses, result, stdout, exitCode,
          tree, functions, ppc, arguments, params, xpc>>

cliVars == <<argv, env, pc, idx, errors, reads, parses, result, stdout, exitCode>>
parseVars == <<tree, functions, ppc>>
paramVars == <<arguments, params, xpc>>

(***************************************************************************)
(* Bounds                                                                  *)
(***************************************************************************)
MaxFiles == 2
MaxNodes == 3
MaxArgs == 1

(***************************************************************************)
(* Program constants                                                       *)
(***************************************************************************)
READ_ERROR_CODE == "UQF000"
SYNTAX_ERROR_CODE == "UQF001"
PARSE_ERROR_CODE == "UQF001"
\* --similarity-threshold defaults to 0.70; thresholds are in hundredths.
DefaultThreshold == 70

\* Optional integers (SyntaxError.lineno / SyntaxError.offset may be None).
None == [some |-> FALSE, val |-> 0]
Some(n) == [some |-> TRUE, val |-> n]

\* Python's `x or 1` for an optional integer: None and 0 are both falsy.
OrOne(x) == IF x.some /\ x.val # 0 THEN x.val ELSE 1

RECURSIVE SeqsUpTo(_, _)
SeqsUpTo(S, n) ==
    IF n = 0 THEN {<<>>}
    ELSE LET shorter == SeqsUpTo(S, n - 1)
         IN shorter \cup {Append(s, x) : s \in {t \in shorter : Len(t) = n - 1}, x \in S}

(***************************************************************************)
(* The environment of one invocation: what is on disk and what the         *)
(* collaborators of cli.py answer.                                         *)
(***************************************************************************)
\* A function definition as it stands in a source file: its name and the
\* shape of its body (equal shapes = isomorphic bodies).
FuncDef(name, shape) == [name |-> name, shape |-> shape]

FuncLists ==
    { <<>>,
      <<FuncDef("dup", 1)>>,
      <<FuncDef("dup", 2)>>,
      <<FuncDef("clamp", 3), FuncDef("clamp_value", 3)>> }

OptInts == {None, Some(0), Some(2)}

\* What a listed path holds on disk.
\*   missing      is_file() is false
\*   oserror      read_text raises OSError
\*   undecodable  the bytes are not UTF-8: read_text raises UnicodeDecodeError
\*   syntax       ast.parse raises SyntaxError(lineno, offset)
\*   ok           the file parses; funcs are its function definitions
FileStates ==
    { [kind |-> k, lineno |-> None, offset |-> None, funcs |-> <<>>] :
          k \in {"missing", "oserror", "undecodable"} }
    \cup { [kind |-> "syntax", lineno |-> l, offset |-> o, funcs |-> <<>>] :
          l \in OptInts, o \in OptInts }
    \cup { [kind |-> "ok", lineno |-> None, offset |-> None, funcs |-> f] :
          f \in FuncLists }

\* resolve_repo_root and list_python_files either fail with an error or
\* give the root and the ordered list of repo-relative paths. The path of
\* the i-th listed file is i.
Envs ==
    { [root |-> "fail", list |-> "ok", files |-> <<>>],
      [root |-> "ok", list |-> "fail", files |-> <<>>] }
    \cup { [root |-> "ok", list |-> "ok", files |-> fs] : fs \in SeqsUpTo(FileStates, MaxFiles) }

RepoRoot == "repo"
RootFailureError ==
    [code |-> "root", path |-> 0, line |-> 1, col |-> 1, message |-> "not a git repository"]
FileListFailureError ==
    [code |-> "list", path |-> 0, line |-> 1, col |-> 1, message |-> "git ls-files failed"]

\* build_arg_parser: the namespace parse_args returns.
Args ==
    [format : {"text", "json"}, similarity_threshold : {DefaultThreshold, 90},
     version : BOOLEAN]

(***************************************************************************)
(* model.ScanError / model.ScanResult                                      *)
(***************************************************************************)
ScanError(code, path, line, col, message) ==
    [code |-> code, path |-> path, line |-> line, col |-> col, message |-> message]

\* ScanResult(repo_root=..., errors=...): conflicts and suggestions are not
\* passed by any caller in cli.py and take their defaults.
ScanResult(repo_root, errs) ==
    [repo_root |-> repo_root, errors |-> errs, conflicts |-> <<>>, suggestions |-> <<>>]

NoResult == [repo_root |-> "", errors |-> <<>>, conflicts |-> <<>>, suggestions |-> <<>>]

(***************************************************************************)
(* cli.py                                                                  *)
(***************************************************************************)
\* repo_root / rel_path
JoinPath(repo_root, rel_path) == <<repo_root, rel_path>>

_repo_relative_path(repo_root, path) == path[2]

\* read_source: a ReadFailure, a ReadOutcome, or the exception that
\* read_text lets through (`except OSError` does not catch
\* UnicodeDecodeError, which is a ValueError).
read_source(repo_root, file_path, file) ==
    IF file.kind = "missing"
    THEN [tag |-> "ReadFailure",
          error |-> ScanError(READ_ERROR_CODE, _repo_relative_path(repo_root, file_path),
                              1, 1, "file path does not exist or is not a file.")]
    ELSE IF file.kind = "oserror"
    THEN [tag |-> "ReadFailure",
          error |-> ScanError(READ_ERROR_CODE, _repo_relative_path(repo_root, file_path),
                              1, 1, "OSError")]
    ELSE IF file.kind = "undecodable"
    THEN [tag |-> "Raise", error |-> ScanError("", 0, 0, 0, "UnicodeDecodeError")]
    ELSE [tag |-> "ReadOutcome", error |-> ScanError("", 0, 0, 0, "")]

\* parse_source taking exc.lineno as it comes.
parse_source_lineRaw(lineno) == lineno.val

parse_source_line(lineno) == OrOne(lineno)
parse_source_col(offset) == OrOne(offset)

parse_source(repo_root, file_path, file) ==
    IF file.kind = "syntax"
    THEN [tag |-> "ParseFailure",
          error |-> ScanError(SYNTAX_ERROR_CODE, _repo_relative_path(repo_root, file_path),
                              parse_source_line(file.lineno), parse_source_col(file.offset),
                              "syntax error")]
    ELSE [tag |-> "ParseOutcome", error |-> ScanError("", 0, 0, 0, "")]

\* format_json: the payload json.dumps serialises.
_scan_error_json(error) ==
    [code |-> error.code, path |-> error.path, line |-> error.line,
     col |-> error.col, message |-> error.message]

format_json(scan_result) ==
    [form |-> "json",
     repo_root |-> scan_result.repo_root,
     naming_conflicts |-> scan_result.conflicts,
     reuse_suggestions |-> scan_result.suggestions,
     errors |-> [i \in 1..Len(scan_result.errors) |-> _scan_error_json(scan_result.errors[i])]]

VersionOutput ==
    [form |-> "version", repo_root |-> "", naming_conflicts |-> <<>>,
     reuse_suggestions |-> <<>>, errors |-> <<>>]

CliIdle ==
    /\ argv = [format |-> "text", similarity_threshold |-> DefaultThreshold, version |-> FALSE]
    /\ env = [root |-> "ok", list |-> "ok", files |-> <<>>]
    /\ pc = "idle"
    /\ idx = 0
    /\ errors = <<>>
    /\ reads = <<>>
    /\ parses = <<>>
    /\ result = NoResult
    /\ stdout = <<>>
    /\ exitCode = -1

ParseIdle ==
    /\ tree = <<>>
    /\ functions = <<>>
    /\ ppc = "idle"

ParamsIdle ==
    /\ arguments = <<>>
    /\ params = <<>>
    /\ xpc = "idle"

Init ==
    /\ argv \in Args
    /\ env \in Envs
    /\ pc = "start"
    /\ idx = 0
    /\ errors = <<>>
    /\ reads = <<>>
    /\ parses = <<>>
    /\ result = NoResult
    /\ stdout = <<>>
    /\ exitCode = -1
    /\ ParseIdle
    /\ ParamsIdle

\* main: --version prints the version and returns 0.
MainVersion ==
    /\ pc = "start"
    /\ argv.version
    /\ stdout' = Append(stdout, VersionOutput)
    /\ exitCode' = 0
    /\ pc' = "done"
    /\ UNCHANGED <<argv, env, idx, errors, reads, parses, result, parseVars, paramVars>>

\* main when scan_repository returns the error of resolve_repo_root.
MainRepoRootFailure ==
    /\ pc = "start"
    /\ ~argv.version
    /\ env.root = "fail"
    /\ result' = ScanResult(RepoRoot, <<RootFailureError>>)
    /\ stdout' = Append(stdout, format_json(result'))
    /\ exitCode' = 2
    /\ pc' = "done"
    /\ UNCHANGED <<argv, env, idx, errors, reads, parses, parseVars, paramVars>>

\* main when scan_repository returns the error of list_python_files.
MainFileListFailure ==
    /\ pc = "start"
    /\ ~argv.version
    /\ env.root = "ok"
    /\ env.list = "fail"
    /\ result' = ScanResult(RepoRoot, <<FileListFailureError>>)
    /\ stdout' = Append(stdout, format_json(result'))
    /\ exitCode' = 2
    /\ pc' = "done"
    /\ UNCHANGED <<argv, env, idx, errors, reads, parses, parseVars, paramVars>>

\* scan_repository reaches _scan_files: errors = [], the loop starts.
ScanFilesBegin ==
    /\ pc = "start"
    /\ ~argv.version
    /\ env.root = "ok"
    /\ env.list = "ok"
    /\ errors' = <<>>
    /\ idx' = 1
    /\ pc' = "scan"
    /\ UNCHANGED <<argv, env, reads, parses, result, stdout, exitCode, parseVars, paramVars>>

\* One iteration of the loop of _scan_files.
ScanFilesStep ==
    /\ pc = "scan"
    /\ idx <= Len(env.files)
    /\ LET rel_path == idx
           file_path == JoinPath(RepoRoot, rel_path)
           read_result == read_source(RepoRoot, file_path, env.files[idx])
           parse_result == parse_source(RepoRoot, file_path, env.files[idx])
       IN /\ reads' = Append(reads, rel_path)
          /\ IF read_result.tag = "Raise"
             THEN /\ pc' = "raised"
                  /\ UNCHANGED <<errors, parses, idx>>
             ELSE IF read_result.tag = "ReadFailure"
             THEN /\ errors' = Append(errors, read_result.error)
                  /\ idx' = idx + 1
                  /\ UNCHANGED <<pc, parses>>
             ELSE /\ parses' = Append(parses, rel_path)
                  /\ errors' = IF parse_result.tag = "ParseFailure"
                               THEN Append(errors, parse_result.error)
                               ELSE errors
                  /\ idx' = idx + 1
                  /\ UNCHANGED pc
    /\ UNCHANGED <<argv, env, result, stdout, exitCode, parseVars, paramVars>>

\* _scan_files returns; scan_repository wraps the errors in a ScanResult;
\* main prints the report and returns.
MainReport ==
    /\ pc = "scan"
    /\ idx > Len(env.files)
    /\ result' = ScanResult(RepoRoot, errors)
    /\ stdout' = Append(stdout, format_json(result'))
    /\ exitCode' = 0
    /\ pc' = "done"
    /\ UNCHANGED <<argv, env, idx, errors, reads, parses, parseVars, paramVars>>

Next ==
    \/ MainVersion
    \/ MainRepoRootFailure
    \/ MainFileListFailure
    \/ ScanFilesBegin
    \/ ScanFilesStep
    \/ MainReport

Spec == Init /\ [][Next]_vars


(***************************************************************************)
(* parser.py: parse_function_defs                                          *)
(***************************************************************************)
\* Statement kinds that carry a body. ClassDef and If stand for every node
\* the collector has no visit_ method for.
StmtKinds == {"FunctionDef", "AsyncFunctionDef", "ClassDef", "If"}

\* The statement forests with exactly n nodes: the shapes of source text,
\* before positions are known.
RECURSIVE Forests(_)
Forests(n) ==
    IF n = 0 THEN {<<>>}
    ELSE UNION { { <<[kind |-> k, body |-> sub]>> \o rest :
                       k \in StmtKinds, sub \in Forests(m), rest \in Forests(n - 1 - m) } :
                 m \in 0..(n - 1) }

RECURSIVE Size(_)
Size(forest) ==
    IF forest = <<>> THEN 0
    ELSE 1 + Size(Head(forest).body) + Size(Tail(forest))

\* ast.parse on text with one statement per line and four columns of
\* indentation per nesting level: every node gets its lineno (1-based) and
\* col_offset (0-based).
RECURSIVE AstParse(_, _, _)
AstParse(forest, line, depth) ==
    IF forest = <<>> THEN <<>>
    ELSE LET stmt == Head(forest)
         IN <<[kind |-> stmt.kind, name |-> "f", lineno |-> line, col_offset |-> 4 * depth,
               body |-> AstParse(stmt.body, line + 1, depth + 1)]>>
            \o AstParse(Tail(forest), line + 1 + Size(stmt.body), depth)

Module(forest) ==
    [kind |-> "Module", name |-> "", lineno |-> 0, col_offset |-> 0,
     body |-> AstParse(forest, 1, 0)]

\* What the source text given to parse_function_defs holds: a module, or
\* text on which ast.parse raises SyntaxError(lineno, offset).
Sources ==
    { [kind |-> "tree", lineno |-> None, offset |-> None, module |-> Module(f)] :
          f \in UNION { Forests(n) : n \in 0..MaxNodes } }
    \cup { [kind |-> "syntax", lineno |-> l, offset |-> o, module |-> Module(<<>>)] :
          l \in OptInts, o \in OptInts }

_build_func_ref(node, path) ==
    [path |-> path, line |-> node.lineno, col |-> node.col_offset + 1, name |-> node.name]

RECURSIVE visit(_, _), generic_visit(_, _), visit_all(_, _)

\* A collector whose visit_FunctionDef does not descend into the function.
visit_FunctionDefNoDescend(node, path) == <<_build_func_ref(node, path)>>

\* visit_FunctionDef and visit_AsyncFunctionDef have the same body.
visit_FunctionDef(node, path) ==
    <<_build_func_ref(node, path)>> \o generic_visit(node, path)

\* NodeVisitor.visit dispatches on the class of the node.
visit(node, path) ==
    IF node.kind \in {"FunctionDef", "AsyncFunctionDef"}
    THEN visit_FunctionDef(node, path)
    ELSE generic_visit(node, path)

\* NodeVisitor.generic_visit visits the children in field order.
generic_visit(node, path) == visit_all(node.body, path)

visit_all(nodes, path) ==
    IF nodes = <<>> THEN <<>>
    ELSE visit(Head(nodes), path) \o visit_all(Tail(nodes), path)

InitParse ==
    /\ CliIdle
    /\ ParamsIdle
    /\ tree \in Sources
    /\ functions = <<>>
    /\ ppc = "start"

\* parse_function_defs on text that parses: ParseOutcome(functions).
ParseFunctionDefs ==
    /\ ppc = "start"
    /\ tree.kind = "tree"
    /\ functions' = visit(tree.module, "a.py")
    /\ ppc' = "ParseOutcome"
    /\ UNCHANGED <<tree, cliVars, paramVars>>

\* parse_function_defs on text that does not parse: ParseFailure(error).
ParseFunctionDefsFailure ==
    /\ ppc = "start"
    /\ tree.kind = "syntax"
    /\ functions' = <<ScanError(PARSE_ERROR_CODE, "a.py", OrOne(tree.lineno),
                                OrOne(tree.offset), "syntax error")>>
    /\ ppc' = "ParseFailure"
    /\ UNCHANGED <<tree, cliVars, paramVars>>

NextParse ==
    \/ ParseFunctionDefs
    \/ ParseFunctionDefsFailure

SpecParse == InitParse /\ [][NextParse]_vars

\* The function definitions of a tree, as a set of nodes.
RECURSIVE DefNodes(_)
DefNodes(nodes) ==
    IF nodes = <<>> THEN {}
    ELSE LET n == Head(nodes)
         IN (IF n.kind \in {"FunctionDef", "AsyncFunctionDef"} THEN {n} ELSE {})
            \cup DefNodes(n.body) \cup DefNodes(Tail(nodes))

\* Source order on locations: by line, then by column.
Precedes(a, b) == a.line < b.line \/ (a.line = b.line /\ a.col < b.col)

\* C8: for every parseable source parse_function_defs returns exactly one
\* FuncRef per function definition (async, method or nested at any depth),
\* in source pre-order, with line = lineno >= 1 and col = col_offset + 1 >= 1,
\* and no two FuncRefs share a location.
C8_OneFuncRefPerDefinition ==
    ppc = "ParseOutcome" =>
        LET defs == DefNodes(tree.module.body)
        IN /\ Len(functions) = Cardinality(defs)
           /\ { <<functions[i].line, functions[i].col>> : i \in 1..Len(functions) }
                  = { <<n.lineno, n.col_offset + 1>> : n \in defs }
           /\ \A i \in 1..Len(functions) : functions[i].line >= 1 /\ functions[i].col >= 1
           /\ \A i, j \in 1..Len(functions) :
                  i < j => Precedes(functions[i], functions[j])

\* An async method of a class nested in a function.
C8_Witness ==
    /\ ppc = "ParseOutcome"
    /\ Len(functions) = 2
    /\ \E c \in 1..Len(tree.module.body) :
          LET top == tree.module.body[c]
          IN /\ top.kind = "FunctionDef"
             /\ Len(top.body) = 1
             /\ top.body[1].kind = "ClassDef"
             /\ Len(top.body[1].body) = 1
             /\ top.body[1].body[1].kind = "AsyncFunctionDef"
    /\ functions[2].line = 3
    /\ functions[2].col = 9


(***************************************************************************)
(* parser.py: _extract_params                                              *)
(***************************************************************************)
ParamNames == {"a", "b", "c", "d", "e"}

\* An optional ast.arg (vararg / kwarg may be None).
NoArg == [some |-> FALSE, arg |-> ""]
SomeArg(name) == [some |-> TRUE, arg |-> name]

ArgNames(a) ==
    { a.posonlyargs[i] : i \in 1..Len(a.posonlyargs) }
    \cup { a.args[i] : i \in 1..Len(a.args) }
    \cup { a.kwonlyargs[i] : i \in 1..Len(a.kwonlyargs) }
    \cup (IF a.vararg.some THEN {a.vararg.arg} ELSE {})
    \cup (IF a.kwarg.some THEN {a.kwarg.arg} ELSE {})

ArgCount(a) ==
    Len(a.posonlyargs) + Len(a.args) + Len(a.kwonlyargs)
    + (IF a.vararg.some THEN 1 ELSE 0) + (IF a.kwarg.some THEN 1 ELSE 0)

\* The ast.arguments nodes of function definitions that compile: no name
\* is declared twice.
ArgumentsNodes ==
    LET lists == SeqsUpTo(ParamNames, MaxArgs)
        opts == {NoArg} \cup { SomeArg(n) : n \in ParamNames }
    IN { a \in [posonlyargs : lists, args : lists, vararg : opts,
                kwonlyargs : lists, kwarg : opts] :
           Cardinality(ArgNames(a)) = ArgCount(a) }

\* A Python string as the sequence of its characters; parameter names are
\* one character long.
Str(name) == <<name>>
StarStr(name) == <<"*">> \o Str(name)
StarStarStr(name) == <<"*", "*">> \o Str(name)

Strs(names) == [i \in 1..Len(names) |-> Str(names[i])]

\* _extract_params with the keyword-only parameters ahead of *args.
_extract_paramsKwFirst(a) ==
    Strs(a.posonlyargs) \o Strs(a.args) \o Strs(a.kwonlyargs)
    \o (IF a.vararg.some THEN <<StarStr(a.vararg.arg)>> ELSE <<>>)
    \o (IF a.kwarg.some THEN <<StarStarStr(a.kwarg.arg)>> ELSE <<>>)

_extract_params(a) ==
    Strs(a.posonlyargs) \o Strs(a.args)
    \o (IF a.vararg.some THEN <<StarStr(a.vararg.arg)>> ELSE <<>>)
    \o Strs(a.kwonlyargs)
    \o (IF a.kwarg.some THEN <<StarStarStr(a.kwarg.arg)>> ELSE <<>>)

InitParams ==
    /\ CliIdle
    /\ ParseIdle
    /\ arguments \in ArgumentsNodes
    /\ params = <<>>
    /\ xpc = "start"

ExtractParams ==
    /\ xpc = "start"
    /\ params' = _extract_params(arguments)
    /\ xpc' = "done"
    /\ UNCHANGED <<arguments, cliVars, parseVars>>

NextParams == ExtractParams

SpecParams == InitParams /\ [][NextParams]_vars

\* The kinds of the declared parameters, in declaration order.
KindSeq(a) ==
    [i \in 1..(Len(a.posonlyargs) + Len(a.args)) |-> "positional"]
    \o (IF a.vararg.some THEN <<"variadic-positional">> ELSE <<>>)
    \o [i \in 1..Len(a.kwonlyargs) |-> "keyword-only"]
    \o (IF a.kwarg.some THEN <<"variadic-keyword">> ELSE <<>>)

\* C9 as stated: the list is ordered, has one entry per declared parameter,
\* and the kind of every parameter can be recovered from the list alone:
\* no other declaration with different kinds gives the same list.
C9_KindsRecoverable ==
    xpc = "done" =>
        /\ Len(params) = ArgCount(arguments)
        /\ \A other \in ArgumentsNodes :
               _extract_params(other) = params => KindSeq(other) = KindSeq(arguments)

\* C9 amended: the list is ordered positional-only, positional, *args,
\* keyword-only, **kwargs, with one entry per declared parameter; the entry
\* of *args is its name behind one star, the entry of **kwargs its name
\* behind two stars, every other entry is the bare name, so exactly the
\* variadic entries begin with a star.
C9_OrderedStarTagged ==
    xpc = "done" =>
        LET n1 == Len(arguments.posonlyargs)
            n2 == Len(arguments.args)
            v == IF arguments.vararg.some THEN 1 ELSE 0
            n3 == Len(arguments.kwonlyargs)
            k == IF arguments.kwarg.some THEN 1 ELSE 0
        IN /\ Len(params) = n1 + n2 + v + n3 + k
           /\ \A i \in 1..n1 : params[i] = <<arguments.posonlyargs[i]>>
           /\ \A i \in 1..n2 : params[n1 + i] = <<arguments.args[i]>>
           /\ v = 1 => params[n1 + n2 + 1] = <<"*", arguments.vararg.arg>>
           /\ \A i \in 1..n3 : params[n1 + n2 + v + i] = <<arguments.kwonlyargs[i]>>
           /\ k = 1 => params[n1 + n2 + v + n3 + 1] = <<"*", "*", arguments.kwarg.arg>>
           /\ \A i \in 1..Len(params) :
                  /\ (params[i][1] = "*" /\ params[i][2] # "*") <=> (v = 1 /\ i = n1 + n2 + 1)
                  /\ (params[i][1] = "*" /\ params[i][2] = "*") <=> (k = 1 /\ i = Len(params))

\* def f(a, /, b, *c, d, **e)
C9_Witness ==
    /\ xpc = "done"
    /\ Len(arguments.posonlyargs) = 1
    /\ Len(arguments.args) = 1
    /\ arguments.vararg.some
    /\ Len(arguments.kwonlyargs) = 1
    /\ arguments.kwarg.some
    /\ Len(params) = 5


(***************************************************************************)
(* Properties of cli.main                                                  *)
(***************************************************************************)
\* main returned after scan_repository produced a ScanResult.
Scanned == pc = "done" /\ ~argv.version /\ env.root = "ok" /\ env.list = "ok"

\* main returned after scan_repository produced a ScanError.
Failed == pc = "done" /\ ~argv.version /\ (env.root = "fail" \/ env.list = "fail")

\* The function descriptors of the repository in scan order: file by file,
\* and within a file by line (a definition takes seven lines, column 1).
RECURSIVE Descriptors(_, _)
Descriptors(files, i) ==
    IF i > Len(files) THEN <<>>
    ELSE [j \in 1..Len(files[i].funcs) |->
              [path |-> i, line |-> 7 * (j - 1) + 1, col |-> 1,
               name |-> files[i].funcs[j].name, shape |-> files[i].funcs[j].shape]]
         \o Descriptors(files, i + 1)

\* The positions in scan order whose name was already seen.
Reoccurrences(descs) ==
    { j \in 1..Len(descs) : \E i \in 1..(j - 1) : descs[i].name = descs[j].name }

\* C1: main returns a non-zero status when the scan finds a naming
\* conflict, and 0 only when it finds none.
C1_ExitStatusSignalsConflict ==
    Scanned => (exitCode = 0 <=> Reoccurrences(Descriptors(env.files, 1)) = {})

\* C2: every descriptor whose name was already seen yields exactly one
\* NamingConflict, whose first_seen is the earliest descriptor of that name
\* and precedes its occurrence.
C2_OneConflictPerReoccurrence ==
    Scanned =>
        LET descs == Descriptors(env.files, 1)
        IN /\ Len(result.conflicts) = Cardinality(Reoccurrences(descs))
           /\ \A c \in 1..Len(result.conflicts) :
                  \E j \in Reoccurrences(descs) :
                      /\ result.conflicts[c].name = descs[j].name
                      /\ result.conflicts[c].occurrence = descs[j]
                      /\ \E i \in 1..(j - 1) :
                             /\ result.conflicts[c].first_seen = descs[i]
                             /\ descs[i].name = descs[j].name
                             /\ \A h \in 1..(i - 1) : descs[h].name # descs[j].name

\* C3: with --format text the report is the line-oriented form; the JSON
\* form is emitted only when --format json is requested.
C3_TextFormatHonoured ==
    (pc = "done" /\ ~argv.version) =>
        \A o \in 1..Len(stdout) : stdout[o].form = argv.format

\* _scan_files is over: it returned, or an exception left it.
ScanFilesOver == Scanned \/ pc = "raised"

\* The listed files, in order, that cannot be read or do not parse.
RECURSIVE FailingFiles(_, _)
FailingFiles(files, i) ==
    IF i > Len(files) THEN <<>>
    ELSE (IF files[i].kind # "ok" THEN <<i>> ELSE <<>>) \o FailingFiles(files, i + 1)

\* The listed files, in order, that can be read.
RECURSIVE ReadableFiles(_, _)
ReadableFiles(files, i) ==
    IF i > Len(files) THEN <<>>
    ELSE (IF files[i].kind \in {"ok", "syntax"} THEN <<i>> ELSE <<>>)
         \o ReadableFiles(files, i + 1)

\* C4: a file that cannot be read or does not parse never stops
\* _scan_files: every listed file is read, every readable one is parsed,
\* and the errors are one per failing file, in the order of the files.
C4_FailingFileNeverStopsScan ==
    ScanFilesOver =>
        /\ reads = [i \in 1..Len(env.files) |-> i]
        /\ parses = ReadableFiles(env.files, 1)
        /\ [e \in 1..Len(errors) |-> errors[e].path] = FailingFiles(env.files, 1)

\* C5: clamp and clamp_value with isomorphic bodies, default threshold: the
\* result has a ReuseSuggestion for each as target with the other as
\* candidate, main returns 0 and the output carries the suggestions.
C5_ClampSuggestsClampValue ==
    (/\ Scanned
     /\ argv.similarity_threshold = DefaultThreshold
     /\ \E i \in 1..Len(env.files) :
            env.files[i].funcs = <<FuncDef("clamp", 3), FuncDef("clamp_value", 3)>>) =>
        /\ exitCode = 0
        /\ \A pair \in {<<"clamp", "clamp_value">>, <<"clamp_value", "clamp">>} :
               \E s \in 1..Len(result.suggestions) :
                   /\ result.suggestions[s].target.name = pair[1]
                   /\ \E c \in 1..Len(result.suggestions[s].candidates) :
                          result.suggestions[s].candidates[c].name = pair[2]
        /\ \E o \in 1..Len(stdout) : stdout[o].reuse_suggestions # <<>>

\* C6: every invocation other than --version emits exactly one report
\* before it ends, holding every ScanError recorded during the scan and the
\* conflicts and suggestions of the result.
C6_AlwaysOneFullReport ==
    (pc \in {"done", "raised"} /\ ~argv.version) =>
        /\ Len(stdout) = 1
        /\ stdout[1].form \in {"json", "text"}
        /\ Len(stdout[1].errors) >= Len(errors)
        /\ \A e \in 1..Len(errors) :
               \E r \in 1..Len(stdout[1].errors) : stdout[1].errors[r] = errors[e]
        /\ stdout[1].naming_conflicts = result.conflicts
        /\ stdout[1].reuse_suggestions = result.suggestions

\* C10: main returns 2 exactly when repository resolution or file
\* discovery fails, and the report then holds that one error and no
\* conflicts or suggestions; the read and syntax errors recorded during a
\* scan leave the loop running and the status at 0, and each of them has
\* line >= 1 and col >= 1, 1 standing in for a position the parser did not
\* report.
C10_FatalOnlyOnDiscoveryFailure ==
    /\ (pc = "done" /\ ~argv.version) =>
           (exitCode = 2 <=> (env.root = "fail" \/ env.list = "fail"))
    /\ Failed =>
           /\ Len(stdout) = 1
           /\ stdout[1].errors
                  = <<IF env.root = "fail" THEN RootFailureError ELSE FileListFailureError>>
           /\ stdout[1].naming_conflicts = <<>>
           /\ stdout[1].reuse_suggestions = <<>>
    /\ \A e \in 1..Len(errors) :
           LET file == env.files[errors[e].path]
           IN /\ errors[e].code \in {READ_ERROR_CODE, SYNTAX_ERROR_CODE}
              /\ errors[e].line >= 1
              /\ errors[e].col >= 1
              /\ (file.kind = "syntax" /\ ~file.lineno.some) => errors[e].line = 1
              /\ (file.kind = "syntax" /\ ~file.offset.some) => errors[e].col = 1
              /\ (file.kind = "syntax" /\ file.lineno.some /\ file.lineno.val >= 1)
                     => errors[e].line = file.lineno.val
              /\ pc = "scan" => idx > errors[e].path
    /\ Scanned => (exitCode = 0 /\ stdout[1].errors = errors)

\* A scan that recorded a read error and a syntax error without a position
\* and returned 0.
C10_Witness ==
    /\ Scanned
    /\ exitCode = 0
    /\ Len(errors) = 2
    /\ errors[1].code = READ_ERROR_CODE
    /\ errors[2].code = SYNTAX_ERROR_CODE
    /\ ~env.files[2].lineno.some
    /\ errors[2].line = 1

====
